---- MODULE Spec2Model ----
(***************************************************************************)
(* Self-update and managed-rules reconciliation of shnote                  *)
(* (src/src/update.rs, with the rules writer of src/src/init.rs).          *)
(*                                                                         *)
(* Text is a sequence of one-character strings.  The two HTML comments of  *)
(* the rule markers are single atoms ("S" and "E"); the newlines around    *)
(* them are real characters, so substring search sees the same overlaps    *)
(* as the program does.                                                    *)
(***************************************************************************)
EXTENDS Integers, Sequences, FiniteSets, TLC

VARIABLES
    platform,        \* cfg(unix) / cfg(windows) of the build
    args,            \* UpdateArgs {check, force}
    runs,            \* update invocations started so far
    pc,              \* position inside run_update
    outcome,         \* result of the invocation ("none" while running)
    latest_version,  \* run_update: latest_version (after trim / strip v)
    version_raw,     \* content of the downloaded VERSION resource
    temp_binary,     \* scratch file temp_dir/<binary_name>
    temp_checksum,   \* scratch file temp_dir/<binary_name>.sha256
    expected_hash,   \* download_and_install: expected_hash
    actual_hash,     \* download_and_install: actual_hash
    hash_printed,    \* first token the hash tool printed (before any case folding)
    dest,            \* content of the destination executable path
    dest_old,        \* content of dest.with_extension("exe.old")
    dest_before,     \* content of dest when the invocation started
    dest_writes,     \* number of fs::copy calls onto dest in this invocation
    steps,           \* steps of this invocation that have been started
    home,            \* the candidate rules files under the home directory
    lang,            \* output language (i18n.lang())
    pueue_avail,     \* pueue::pueue_available() when init runs
    claude_probe,    \* probe_cli_tool("claude").version
    rules_files,     \* check_rules_after_update_with_reader: rules_files
    rec_idx,         \* index in rules_files of the file the loop is at
    rec_result,      \* result of the reconciliation pass ("none" until it returns)
    last,            \* what the loop did for the file it handled last
    call             \* the function applied last, with its arguments and its result

installer_vars ==
    <<platform, args, runs, pc, outcome, latest_version, version_raw, temp_binary,
      temp_checksum, expected_hash, actual_hash, hash_printed, dest, dest_old,
      dest_before, dest_writes, steps>>

rules_vars == <<home, lang, pueue_avail, claude_probe, rules_files, rec_idx, rec_result, last>>

lib_vars == <<call>>

vars == <<installer_vars, rules_vars, lib_vars>>

(***************************************************************************)
(* Bounds                                                                  *)
(***************************************************************************)
MaxRuns == 2      \* update invocations in one behaviour
MaxFiles == 2     \* candidate rules paths that exist when a reconciliation pass starts

(***************************************************************************)
(* Text helpers (Rust str methods, computed as std computes them)          *)
(***************************************************************************)
NoneVal == <<"<none>">>     \* Option::None of a text (no text is this sequence)
NoFile == <<"<absent>">>    \* a text file that does not exist
Absent == "absent"          \* a binary file that does not exist

IsWhitespace(c) == c \in {" ", "\n", "\t", "\r"}

IsAsciiDigit(c) == c \in {"0", "1", "2", "3", "4", "5", "6", "7", "8", "9"}

ToLowerChar(c) ==
    CASE c = "A" -> "a"
      [] c = "B" -> "b"
      [] c = "C" -> "c"
      [] c = "E" -> "e"
      [] c = "N" -> "n"
      [] c = "O" -> "o"
      [] c = "S" -> "s"
      [] c = "Y" -> "y"
      [] OTHER -> c

to_lowercase(s) == [i \in 1..Len(s) |-> ToLowerChar(s[i])]

RECURSIVE trim_start(_)
trim_start(s) ==
    IF s = <<>> THEN s
    ELSE IF IsWhitespace(Head(s)) THEN trim_start(Tail(s)) ELSE s

RECURSIVE trim_end(_)
trim_end(s) ==
    IF s = <<>> THEN s
    ELSE IF IsWhitespace(s[Len(s)]) THEN trim_end(SubSeq(s, 1, Len(s) - 1)) ELSE s

trim(s) == trim_end(trim_start(s))

RECURSIVE trim_start_matches(_, _)
trim_start_matches(s, c) ==
    IF s = <<>> THEN s
    ELSE IF Head(s) = c THEN trim_start_matches(Tail(s), c) ELSE s

RECURSIVE TakeToken(_)
TakeToken(s) ==
    IF s = <<>> THEN <<>>
    ELSE IF IsWhitespace(Head(s)) THEN <<>> ELSE <<Head(s)>> \o TakeToken(Tail(s))

\* s.split_whitespace().next(): NoneVal when s holds no token.
split_whitespace_next(s) ==
    IF trim_start(s) = <<>> THEN NoneVal ELSE TakeToken(trim_start(s))

StripCr(l) == IF l # <<>> /\ l[Len(l)] = "\r" THEN SubSeq(l, 1, Len(l) - 1) ELSE l

\* s.lines(): split on "\n" (a "\r" before it is dropped); a final line without
\* terminator counts, an empty tail does not.
RECURSIVE lines(_)
lines(s) ==
    IF s = <<>> THEN <<>>
    ELSE LET nl == {i \in 1..Len(s) : s[i] = "\n"}
         IN IF nl = {} THEN <<s>>
            ELSE LET k == CHOOSE i \in nl : \A j \in nl : i <= j
                 IN <<StripCr(SubSeq(s, 1, k - 1))>> \o lines(SubSeq(s, k + 1, Len(s)))

(***************************************************************************)
(* Program constants and the inputs of the installer                       *)
(***************************************************************************)
\* info.rs: VERSION = env!("CARGO_PKG_VERSION"), here 1.2.2
VERSION == <<"1", ".", "2", ".", "2">>

\* Possible contents of the VERSION release resource.
VersionResources ==
    { <<"v", "1", ".", "2", ".", "3", "\n">>,     \* a newer release
      <<"1", ".", "2", ".", "2", "\n">>,          \* the running release
      <<" ", "v", "1", ".", "2", ".", "2">>,      \* the running release, prefixed
      <<"1", ".", "2">>,                          \* two segments only
      <<"x", "\n">>,                              \* not a version
      <<>> }                                      \* empty resource

\* Contents the binary resource can have: the published build or a damaged download.
NewBinary == "new"
CorruptBinary == "corrupt"
OldBinary == "old"
StaleBackup == "stale"
Partial == "partial"
BinaryResources == {NewBinary, CorruptBinary}

\* SHA-256 of a binary as lower-case hex (two digits stand for the 64).
Sha256Hex(content) == IF content = NewBinary THEN <<"a", "b">> ELSE <<"a", "c">>

ToUpperChar(c) ==
    CASE c = "a" -> "A" [] c = "b" -> "B" [] c = "c" -> "C" [] OTHER -> c

\* Contents the .sha256 resource can have: "<hash>  <file>", "<hash>", or nothing.
ChecksumResources ==
    { <<"a", "b", " ", " ", "f", "\n">>,
      <<"A", "B", " ", " ", "f", "\n">>,
      <<"a", "c", " ", " ", "f", "\n">>,
      <<"a", "B">>,
      <<>> }

ToolResults == {"ok", "nonzero", "nospawn"}

\* What running the hash tool on a file can give: [status, stdout].
HashToolRuns(plat, content) ==
    LET h == Sha256Hex(content)
        H == [i \in 1..Len(h) |-> ToUpperChar(h[i])]
    IN  IF plat = "unix"
        THEN { [status |-> "ok", stdout |-> h \o <<" ", " ", "f", "\n">>],
               [status |-> "ok", stdout |-> H \o <<" ", " ", "f", "\n">>],
               [status |-> "ok", stdout |-> <<>>],
               [status |-> "nonzero", stdout |-> <<>>],
               [status |-> "nospawn", stdout |-> <<>>] }
        ELSE { [status |-> "ok", stdout |-> <<"H", "\r", "\n">> \o h \o <<"\r", "\n", "K", "\r", "\n">>],
               [status |-> "ok", stdout |-> <<"H", "\r", "\n">> \o H \o <<"\r", "\n", "K", "\r", "\n">>],
               [status |-> "ok", stdout |-> <<"H">>],
               [status |-> "nonzero", stdout |-> <<>>],
               [status |-> "nospawn", stdout |-> <<>>] }

(***************************************************************************)
(* ReleaseInstaller: helpers of update.rs                                  *)
(***************************************************************************)
\* Mutant: there is no fallback to wget.
download_file_curl_only(plat, curl, wget, powershell) ==
    IF plat = "unix"
    THEN IF curl = "ok" THEN "ok" ELSE "err_download_failed"
    ELSE IF powershell = "nospawn" THEN "err_download_powershell"
         ELSE IF powershell = "nonzero" THEN "err_download_failed"
         ELSE "ok"

\* download_file: the tools it starts (or tries to start), in order.
download_tools_invoked(plat, curl, wget, powershell) ==
    IF plat = "unix"
    THEN IF curl = "ok" THEN <<"curl">> ELSE <<"curl", "wget">>
    ELSE <<"powershell">>

\* download_file: curl, then wget (unix); PowerShell (windows).
download_file(plat, curl, wget, powershell) ==
    IF plat = "unix"
    THEN IF curl = "ok" THEN "ok"
         ELSE IF wget = "nospawn" THEN "err_download_no_tool"
         ELSE IF wget = "nonzero" THEN "err_download_failed"
         ELSE "ok"
    ELSE IF powershell = "nospawn" THEN "err_download_powershell"
         ELSE IF powershell = "nonzero" THEN "err_download_failed"
         ELSE "ok"

\* read_checksum_file: first whitespace-delimited token (or ""), lower-cased.
read_checksum_file(content) ==
    LET t == split_whitespace_next(content)
    IN  to_lowercase(IF t = NoneVal THEN <<>> ELSE t)

\* The hash text the tool printed, before compute_sha256 post-processes it.
printed_hash(plat, run) ==
    IF run.status # "ok" THEN NoneVal
    ELSE IF plat = "unix" THEN split_whitespace_next(run.stdout)
    ELSE IF Len(lines(run.stdout)) < 2 THEN NoneVal
    ELSE trim(lines(run.stdout)[2])

\* compute_sha256: [ok, val]; val is the hash on success, the error otherwise.
compute_sha256(plat, run) ==
    IF plat = "unix"
    THEN IF run.status = "nospawn" THEN [ok |-> FALSE, val |-> "err_shasum_run"]
         ELSE IF run.status # "ok" THEN [ok |-> FALSE, val |-> "err_shasum_failed"]
         ELSE IF split_whitespace_next(run.stdout) = NoneVal
              THEN [ok |-> FALSE, val |-> "err_shasum_parse"]
         ELSE [ok |-> TRUE, val |-> split_whitespace_next(run.stdout)]
    ELSE IF run.status = "nospawn" THEN [ok |-> FALSE, val |-> "err_certutil_run"]
         ELSE IF run.status # "ok" THEN [ok |-> FALSE, val |-> "err_certutil_failed"]
         ELSE IF Len(lines(run.stdout)) < 2
              THEN [ok |-> FALSE, val |-> "err_certutil_parse"]
         ELSE [ok |-> TRUE, val |-> to_lowercase(trim(lines(run.stdout)[2]))]

\* Mutant: the comparison is skipped.
checksum_not_compared(actual, expected) == TRUE

\* download_and_install: `if actual_hash != expected_hash { bail!(..) }`
checksum_matches(actual, expected) == actual = expected

\* Mutant: the force flag is ignored.
is_already_latest_ignoring_force(current, latest, force) == current = latest

\* run_update: `current_version == latest_version && !args.force`
is_already_latest(current, latest, force) == current = latest /\ ~force

\* Mutant: the scratch directory is kept (TempDir::into_path).
keep_temp_dir(dir) == dir

\* TempDir::drop removes the scratch directory with everything in it.
drop_temp_dir(dir) == [binary |-> Absent, checksum |-> NoFile]

\* Mutant: run_update goes on to the rules check whatever the installer returned.
FinishThenCheckRules(result) ==
    /\ pc' = "rules"
    /\ outcome' = result
    /\ temp_binary' = Absent
    /\ temp_checksum' = NoFile

\* Leaving download_and_install (or fetch_latest_version) on any path.
Finish(result) ==
    /\ pc' = "done"
    /\ outcome' = result
    /\ temp_binary' = drop_temp_dir([binary |-> temp_binary, checksum |-> temp_checksum]).binary
    /\ temp_checksum' = drop_temp_dir([binary |-> temp_binary, checksum |-> temp_checksum]).checksum

(***************************************************************************)
(* ReleaseInstaller: the steps of run_update                               *)
(***************************************************************************)
\* run_update lines 32-35 with fetch_latest_version.
FetchLatestVersion ==
    /\ pc = "start"
    /\ \E tempdir_ok \in BOOLEAN, curl \in ToolResults, wget \in ToolResults,
          powershell \in ToolResults, readable \in BOOLEAN, content \in VersionResources :
         LET r == download_file(platform, curl, wget, powershell)
         IN  IF ~tempdir_ok
             THEN Finish("err_temp_dir") /\ UNCHANGED <<version_raw, latest_version>>
             ELSE IF r # "ok"
             THEN Finish(r) /\ UNCHANGED <<version_raw, latest_version>>
             ELSE IF ~readable
             THEN Finish("err_read_version") /\ UNCHANGED <<version_raw, latest_version>>
             ELSE /\ version_raw' = content
                  /\ latest_version' = trim_start_matches(trim(content), "v")
                  /\ pc' = "compare"
                  /\ UNCHANGED <<outcome, temp_binary, temp_checksum>>
    /\ steps' = steps \cup {"fetch_version"}
    /\ UNCHANGED <<rules_vars, lib_vars>>
    /\ UNCHANGED <<platform, args, runs, expected_hash, actual_hash, hash_printed,
                   dest, dest_old, dest_before, dest_writes>>

\* run_update lines 39-42.
AlreadyLatest ==
    /\ pc = "compare"
    /\ is_already_latest(VERSION, latest_version, args.force)
    /\ Finish("AlreadyLatest")
    /\ UNCHANGED <<rules_vars, lib_vars>>
    /\ UNCHANGED <<platform, args, runs, latest_version, version_raw, expected_hash,
                   actual_hash, hash_printed, dest, dest_old, dest_before, dest_writes,
                   steps>>

\* run_update lines 44-49.
CheckOnly ==
    /\ pc = "compare"
    /\ ~is_already_latest(VERSION, latest_version, args.force)
    /\ args.check
    /\ Finish("CheckOnly")
    /\ UNCHANGED <<rules_vars, lib_vars>>
    /\ UNCHANGED <<platform, args, runs, latest_version, version_raw, expected_hash,
                   actual_hash, hash_printed, dest, dest_old, dest_before, dest_writes,
                   steps>>

\* run_update lines 51-57: get_install_path() is current_exe().ok().
GetInstallPath ==
    /\ pc = "compare"
    /\ ~is_already_latest(VERSION, latest_version, args.force)
    /\ ~args.check
    /\ \E found \in BOOLEAN :
         IF found
         THEN pc' = "download_binary" /\ UNCHANGED <<outcome, temp_binary, temp_checksum>>
         ELSE Finish("err_install_path")
    /\ steps' = steps \cup {"install"}
    /\ UNCHANGED <<rules_vars, lib_vars>>
    /\ UNCHANGED <<platform, args, runs, latest_version, version_raw, expected_hash,
                   actual_hash, hash_printed, dest, dest_old, dest_before, dest_writes>>

\* download_and_install lines 108-114: scratch directory, binary download.
DownloadBinary ==
    /\ pc = "download_binary"
    /\ \E tempdir_ok \in BOOLEAN, curl \in ToolResults, wget \in ToolResults,
          powershell \in ToolResults, content \in BinaryResources :
         LET r == download_file(platform, curl, wget, powershell)
         IN  IF ~tempdir_ok
             THEN Finish("err_temp_dir") /\ steps' = steps
             ELSE IF r # "ok"
             THEN Finish(r) /\ steps' = steps \cup {"download_binary"}
             ELSE /\ temp_binary' = content
                  /\ pc' = "download_checksum"
                  /\ steps' = steps \cup {"download_binary", "binary_downloaded"}
                  /\ UNCHANGED <<outcome, temp_checksum>>
    /\ UNCHANGED <<rules_vars, lib_vars>>
    /\ UNCHANGED <<platform, args, runs, latest_version, version_raw, expected_hash,
                   actual_hash, hash_printed, dest, dest_old, dest_before, dest_writes>>

\* download_and_install line 115.
DownloadChecksum ==
    /\ pc = "download_checksum"
    /\ \E curl \in ToolResults, wget \in ToolResults, powershell \in ToolResults,
          content \in ChecksumResources :
         LET r == download_file(platform, curl, wget, powershell)
         IN  IF r # "ok"
             THEN Finish(r) /\ steps' = steps \cup {"download_checksum"}
             ELSE /\ temp_checksum' = content
                  /\ pc' = "read_checksum"
                  /\ steps' = steps \cup {"download_checksum", "checksum_downloaded"}
                  /\ UNCHANGED <<outcome, temp_binary>>
    /\ UNCHANGED <<rules_vars, lib_vars>>
    /\ UNCHANGED <<platform, args, runs, latest_version, version_raw, expected_hash,
                   actual_hash, hash_printed, dest, dest_old, dest_before, dest_writes>>

\* download_and_install line 119.
ReadChecksumFile ==
    /\ pc = "read_checksum"
    /\ \E readable \in BOOLEAN :
         IF readable
         THEN /\ expected_hash' = read_checksum_file(temp_checksum)
              /\ pc' = "compute_sha256"
              /\ UNCHANGED <<outcome, temp_binary, temp_checksum>>
         ELSE Finish("err_read_checksum") /\ UNCHANGED expected_hash
    /\ UNCHANGED <<rules_vars, lib_vars>>
    /\ UNCHANGED <<platform, args, runs, latest_version, version_raw, actual_hash,
                   hash_printed, dest, dest_old, dest_before, dest_writes, steps>>

\* download_and_install line 120.
ComputeSha256 ==
    /\ pc = "compute_sha256"
    /\ \E run \in HashToolRuns(platform, temp_binary) :
         LET r == compute_sha256(platform, run)
         IN  IF r.ok
             THEN /\ actual_hash' = r.val
                  /\ hash_printed' = printed_hash(platform, run)
                  /\ pc' = "verify"
                  /\ UNCHANGED <<outcome, temp_binary, temp_checksum>>
             ELSE Finish(r.val) /\ UNCHANGED <<actual_hash, hash_printed>>
    /\ UNCHANGED <<rules_vars, lib_vars>>
    /\ UNCHANGED <<platform, args, runs, latest_version, version_raw, expected_hash,
                   dest, dest_old, dest_before, dest_writes, steps>>

\* download_and_install lines 122-134.
VerifyChecksum ==
    /\ pc = "verify"
    /\ IF checksum_matches(actual_hash, expected_hash)
       THEN /\ pc' = "replace"
            /\ steps' = steps \cup {"verified"}
            /\ UNCHANGED <<outcome, temp_binary, temp_checksum>>
       ELSE Finish("err_checksum_mismatch") /\ steps' = steps \cup {"mismatch"}
    /\ UNCHANGED <<rules_vars, lib_vars>>
    /\ UNCHANGED <<platform, args, runs, latest_version, version_raw, expected_hash,
                   actual_hash, hash_printed, dest, dest_old, dest_before, dest_writes>>

\* fs::copy(src, dest): the new content of dest.  It may fail before dest is opened,
\* or after dest was truncated and only partly written.
CopyOutcomes == {"ok", "fail_open", "fail_partial"}

fs_copy(src, old, how) ==
    CASE how = "ok" -> src
      [] how = "fail_open" -> old
      [] OTHER -> Partial

\* download_and_install returns Ok: run_update goes on to check_rules_after_update.
Installed ==
    /\ pc' = "rules"
    /\ outcome' = "Installed"
    /\ temp_binary' = drop_temp_dir([binary |-> temp_binary, checksum |-> temp_checksum]).binary
    /\ temp_checksum' = drop_temp_dir([binary |-> temp_binary, checksum |-> temp_checksum]).checksum

\* replace_binary (unix) lines 275-276: fs::set_permissions(src, 0o755)?
SetPermissions ==
    /\ pc = "replace"
    /\ platform = "unix"
    /\ \E ok \in BOOLEAN :
         IF ok
         THEN pc' = "copy" /\ UNCHANGED <<outcome, temp_binary, temp_checksum>>
         ELSE Finish("err_set_permissions")
    /\ UNCHANGED <<rules_vars, lib_vars>>
    /\ UNCHANGED <<platform, args, runs, latest_version, version_raw, expected_hash,
                   actual_hash, hash_printed, dest, dest_old, dest_before, dest_writes,
                   steps>>

\* replace_binary (windows) line 288: let _ = fs::remove_file(&dest_old)
RemoveOldBackup ==
    /\ pc = "replace"
    /\ platform = "windows"
    /\ \E removed \in BOOLEAN : dest_old' = IF removed THEN Absent ELSE dest_old
    /\ pc' = "rename"
    /\ UNCHANGED <<rules_vars, lib_vars>>
    /\ UNCHANGED <<platform, args, runs, outcome, latest_version, version_raw, temp_binary,
                   temp_checksum, expected_hash, actual_hash, hash_printed, dest,
                   dest_before, dest_writes, steps>>

\* Mutant: the running binary is deleted instead of renamed aside.
fs_remove_instead_of_rename(from, to) == [from |-> Absent, to |-> to]

\* Mutant: the renamed file arrives truncated.
fs_rename_truncating(from, to) == [from |-> Absent, to |-> Partial]

\* fs::rename(from, to): the content moves to `to`, `from` is gone.
fs_rename(from, to) == [from |-> Absent, to |-> from]

\* replace_binary (windows) lines 291-293: rename the running binary aside.
RenameCurrent ==
    /\ pc = "rename"
    /\ IF dest = Absent
       THEN /\ pc' = "copy"
            /\ UNCHANGED <<outcome, temp_binary, temp_checksum, dest, dest_old>>
       ELSE \E ok \in BOOLEAN :
              IF ok
              THEN /\ dest_old' = fs_rename(dest, dest_old).to
                   /\ dest' = fs_rename(dest, dest_old).from
                   /\ pc' = "copy"
                   /\ UNCHANGED <<outcome, temp_binary, temp_checksum>>
              ELSE Finish("err_rename_old") /\ UNCHANGED <<dest, dest_old>>
    /\ UNCHANGED <<rules_vars, lib_vars>>
    /\ UNCHANGED <<platform, args, runs, latest_version, version_raw, expected_hash,
                   actual_hash, hash_printed, dest_before, dest_writes, steps>>

\* replace_binary line 279 (unix) / line 296 (windows): fs::copy(src, dest)
CopyBinary ==
    /\ pc = "copy"
    /\ \E how \in CopyOutcomes :
         /\ dest' = fs_copy(temp_binary, dest, how)
         /\ dest_writes' = IF how = "fail_open" THEN dest_writes ELSE dest_writes + 1
         /\ IF how # "ok" THEN Finish("err_replace_binary")
            ELSE IF platform = "unix" THEN Installed
            ELSE pc' = "cleanup" /\ UNCHANGED <<outcome, temp_binary, temp_checksum>>
    /\ steps' = steps \cup {"copy"}
    /\ UNCHANGED <<rules_vars, lib_vars>>
    /\ UNCHANGED <<platform, args, runs, latest_version, version_raw, expected_hash,
                   actual_hash, hash_printed, dest_old, dest_before>>

\* replace_binary (windows) line 299: let _ = fs::remove_file(&dest_old)
RemoveRenamed ==
    /\ pc = "cleanup"
    /\ \E removed \in BOOLEAN : dest_old' = IF removed THEN Absent ELSE dest_old
    /\ Installed
    /\ UNCHANGED <<rules_vars, lib_vars>>
    /\ UNCHANGED <<platform, args, runs, latest_version, version_raw, expected_hash,
                   actual_hash, hash_printed, dest, dest_before, dest_writes, steps>>

(***************************************************************************)
(* VersionProbe (init.rs)                                                  *)
(***************************************************************************)
DigitVal(c) ==
    CASE c = "0" -> 0 [] c = "1" -> 1 [] c = "2" -> 2 [] c = "3" -> 3 [] c = "4" -> 4
      [] c = "5" -> 5 [] c = "6" -> 6 [] c = "7" -> 7 [] c = "8" -> 8 [] OTHER -> 9

\* Mutant: the digits are read from the least significant end.
RECURSIVE DigitsValueReversed(_)
DigitsValueReversed(s) ==
    IF s = <<>> THEN 0 ELSE DigitsValueReversed(Tail(s)) * 10 + DigitVal(Head(s))

RECURSIVE DigitsValue(_)
DigitsValue(s) ==
    IF s = <<>> THEN 0 ELSE DigitsValue(SubSeq(s, 1, Len(s) - 1)) * 10 + DigitVal(s[Len(s)])

\* u64::MAX = 18446744073709551615, as decimal digits.
U64MaxDigits ==
    <<"1", "8", "4", "4", "6", "7", "4", "4", "0", "7", "3", "7", "0", "9", "5", "5", "1", "6",
      "1", "5">>

\* a > b for two digit texts of the same length.
RECURSIVE DigitsGreater(_, _)
DigitsGreater(a, b) ==
    IF a = <<>> THEN FALSE
    ELSE IF DigitVal(Head(a)) # DigitVal(Head(b)) THEN DigitVal(Head(a)) > DigitVal(Head(b))
    ELSE DigitsGreater(Tail(a), Tail(b))

\* The value of the digits does not fit in a u64 (checked_mul / checked_add fail).
overflows_u64(s) ==
    LET d == trim_start_matches(s, "0")
    IN  \/ Len(d) > Len(U64MaxDigits)
        \/ Len(d) = Len(U64MaxDigits) /\ DigitsGreater(d, U64MaxDigits)

\* str::parse::<u64>() of a digits-only text: -1 when it fails (empty text or
\* overflow).
parse_u64(s) == IF s = <<>> \/ overflows_u64(s) THEN -1 ELSE DigitsValue(s)

RECURSIVE trim_end_matches(_, _)
trim_end_matches(s, c) ==
    IF s = <<>> THEN s
    ELSE IF s[Len(s)] = c THEN trim_end_matches(SubSeq(s, 1, Len(s) - 1), c) ELSE s

trim_matches(s, c) == trim_end_matches(trim_start_matches(s, c), c)

\* s.split(c): the pieces between occurrences of c (at least one piece).
RECURSIVE split(_, _)
split(s, c) ==
    LET at == {i \in 1..Len(s) : s[i] = c}
    IN  IF at = {} THEN <<s>>
        ELSE LET k == CHOOSE i \in at : \A j \in at : i <= j
             IN  <<SubSeq(s, 1, k - 1)>> \o split(SubSeq(s, k + 1, Len(s)), c)

RECURSIVE TakeVersionChars(_)
TakeVersionChars(s) ==
    IF s = <<>> THEN <<>>
    ELSE IF IsAsciiDigit(Head(s)) \/ Head(s) = "."
         THEN <<Head(s)>> \o TakeVersionChars(Tail(s))
         ELSE <<>>

\* parse_semver_from_text: NoneVal, or <<major, minor, patch>>.
parse_semver_from_text(text) ==
    LET digits == {i \in 1..Len(text) : IsAsciiDigit(text[i])}
    IN  IF digits = {} THEN NoneVal
        ELSE LET start == CHOOSE i \in digits : \A j \in digits : i <= j
                 raw == trim_matches(TakeVersionChars(SubSeq(text, start, Len(text))), ".")
                 parts == split(raw, ".")
                 major == parse_u64(parts[1])
                 minor == IF Len(parts) >= 2 /\ parse_u64(parts[2]) >= 0
                          THEN parse_u64(parts[2]) ELSE 0
                 patch == IF Len(parts) >= 3 /\ parse_u64(parts[3]) >= 0
                          THEN parse_u64(parts[3]) ELSE 0
             IN  IF major < 0 THEN NoneVal ELSE <<major, minor, patch>>

\* Mutant: only the patch numbers are compared.
semver_ge_patch_only(a, b) == a[3] >= b[3]

\* derive(Ord) on SemVer: lexicographic order of (major, minor, patch).
semver_ge(a, b) ==
    \/ a[1] > b[1]
    \/ a[1] = b[1] /\ a[2] > b[2]
    \/ a[1] = b[1] /\ a[2] = b[2] /\ a[3] >= b[3]

\* init_claude lines 785-789.
claude_supports_rules(probe) ==
    /\ probe # NoneVal
    /\ parse_semver_from_text(probe) # NoneVal
    /\ semver_ge(parse_semver_from_text(probe), <<2, 0, 64>>)

(***************************************************************************)
(* TemplateComposer and the rules writer (init.rs)                         *)
(***************************************************************************)
SHNOTE_MARKER_START == <<"\n", "<!-- shnote rules start -->", "\n">>
SHNOTE_MARKER_END == <<"\n", "<!-- shnote rules end -->", "\n">>

Unreadable == <<"<unreadable>">>   \* a path that exists and cannot be read as text

Targets == {"Claude", "Codex", "Gemini"}
Langs == {"En", "Zh"}

\* s.find(pat): index (from 1) of the first occurrence, 0 for None.
find(s, pat) ==
    LET hits == {i \in 1..(Len(s) - Len(pat) + 1) : SubSeq(s, i, i + Len(pat) - 1) = pat}
    IN  IF hits = {} THEN 0 ELSE CHOOSE i \in hits : \A j \in hits : i <= j

\* rules_for_target lines 741-759 with the pueue section as a parameter.  Every
\* template text that holds no placeholder is one atom per line.
RenderRules(lg, target, with_pueue) ==
    <<"base-head:" \o lg, "\n", "\n", "non-shnote-tools:" \o lg \o ":" \o target, "\n", "\n">>
    \o (IF with_pueue THEN <<"pueue:" \o lg, "\n">> ELSE <<>>)
    \o <<"\n", "\n", "base-tail:" \o lg, "\n">>
    \o <<"\n", "\n">>
    \o <<"extra:" \o lg \o ":" \o target, "\n">>

\* init.rs rules_for_target: the pueue section is there when pueue is available.
rules_for_target(lg, target, pueue) == RenderRules(lg, target, pueue)

\* init.rs rules_for_target_with_pueue, as update.rs calls it.
rules_for_target_with_pueue(lg, target, with_pueue) == RenderRules(lg, target, with_pueue)

\* append_rules on the file at one path: [ok, file].
append_rules(file, rules) ==
    IF file = Unreadable THEN [ok |-> FALSE, file |-> file]
    ELSE LET content == IF file = NoFile THEN <<>> ELSE file
             start_idx == find(content, SHNOTE_MARKER_START)
             e == find(content, SHNOTE_MARKER_END)
             end_idx == IF e = 0 THEN Len(content) + 1 ELSE e + Len(SHNOTE_MARKER_END)
         IN  IF start_idx # 0
             THEN [ok |-> TRUE,
                   file |-> SubSeq(content, 1, start_idx - 1) \o SHNOTE_MARKER_START
                            \o rules \o SHNOTE_MARKER_END
                            \o SubSeq(content, end_idx, Len(content))]
             ELSE [ok |-> TRUE,
                   file |-> content \o SHNOTE_MARKER_START \o rules \o SHNOTE_MARKER_END]

\* migrate_shnote_rules(old = CLAUDE.md, new = rules/shnote.md): [ok, migrated, home].
migrate_shnote_rules(h, rules) ==
    LET content == h["claude_md"]
        start_idx == find(content, SHNOTE_MARKER_START)
        e == find(content, SHNOTE_MARKER_END)
        marker_end_idx == IF e = 0 THEN Len(content) + 1 ELSE e + Len(SHNOTE_MARKER_END)
        new_content == trim_end(SubSeq(content, 1, start_idx - 1)
                                \o SubSeq(content, marker_end_idx, Len(content)))
    IN  IF content = Unreadable THEN [ok |-> FALSE, migrated |-> FALSE, home |-> h]
        ELSE IF start_idx = 0 THEN [ok |-> TRUE, migrated |-> FALSE, home |-> h]
        ELSE [ok |-> TRUE, migrated |-> TRUE,
              home |-> [h EXCEPT !["claude_rules"] = rules,
                                 !["claude_md"] = IF new_content = <<>> THEN NoFile
                                                  ELSE new_content]]

\* init_claude: [ok, home].
init_claude(h, lg, pueue, probe) ==
    LET rules == rules_for_target(lg, "Claude", pueue)
    IN  IF claude_supports_rules(probe)
        THEN LET m == IF h["claude_md"] # NoFile THEN migrate_shnote_rules(h, rules)
                      ELSE [ok |-> TRUE, migrated |-> FALSE, home |-> h]
             IN  IF ~m.ok THEN [ok |-> FALSE, home |-> h]
                 ELSE IF m.migrated THEN [ok |-> TRUE, home |-> m.home]
                 ELSE [ok |-> TRUE, home |-> [h EXCEPT !["claude_rules"] = rules]]
        ELSE LET r == append_rules(h["claude_md"], rules)
             IN  [ok |-> r.ok, home |-> [h EXCEPT !["claude_md"] = r.file]]

\* init_codex: [ok, home].
init_codex(h, lg, pueue) ==
    LET r == append_rules(h["codex_agents"], rules_for_target(lg, "Codex", pueue))
    IN  [ok |-> r.ok, home |-> [h EXCEPT !["codex_agents"] = r.file]]

\* init_gemini: [ok, home].
init_gemini(h, lg, pueue) ==
    LET r == append_rules(h["gemini_md"], rules_for_target(lg, "Gemini", pueue))
    IN  [ok |-> r.ok, home |-> [h EXCEPT !["gemini_md"] = r.file]]

\* run_init with the default scope (user).
run_init(h, lg, target, pueue, probe) ==
    CASE target = "Claude" -> init_claude(h, lg, pueue, probe)
      [] target = "Codex" -> init_codex(h, lg, pueue)
      [] OTHER -> init_gemini(h, lg, pueue)

(***************************************************************************)
(* DriftReconciler (update.rs)                                             *)
(***************************************************************************)
\* find_rules_files: the candidate locations, in the order they are pushed.
Locations ==
    << [path |-> "claude_rules", target |-> "Claude"],
       [path |-> "claude_md", target |-> "Claude"],
       [path |-> "codex_agents", target |-> "Codex"],
       [path |-> "gemini_md", target |-> "Gemini"] >>

Paths == {Locations[i].path : i \in 1..Len(Locations)}

\* Mutant: a text without start marker counts as one managed block.
extract_whole_without_marker(content) ==
    LET start_idx == find(content, SHNOTE_MARKER_START)
        rules_start == start_idx + Len(SHNOTE_MARKER_START)
        e == find(SubSeq(content, rules_start, Len(content)), SHNOTE_MARKER_END)
        rules_end == IF e = 0 THEN Len(content) ELSE rules_start + e - 2
    IN  IF start_idx = 0 THEN content ELSE SubSeq(content, rules_start, rules_end)

\* Mutant: the end marker is looked for from the start of the content.
extract_with_end_from_content_start(content) ==
    LET start_idx == find(content, SHNOTE_MARKER_START)
        rules_start == start_idx + Len(SHNOTE_MARKER_START)
        e == find(content, SHNOTE_MARKER_END)
        rules_end == IF e = 0 THEN Len(content) ELSE e - 1
    IN  IF start_idx = 0 THEN NoneVal ELSE SubSeq(content, rules_start, rules_end)

extract_shnote_rules(content) ==
    LET start_idx == find(content, SHNOTE_MARKER_START)
        rules_start == start_idx + Len(SHNOTE_MARKER_START)
        e == find(SubSeq(content, rules_start, Len(content)), SHNOTE_MARKER_END)
        rules_end == IF e = 0 THEN Len(content) ELSE rules_start + e - 2
    IN  IF start_idx = 0 THEN NoneVal ELSE SubSeq(content, rules_start, rules_end)

\* push_rules_file: the list with this location pushed, or the list as it was.
push_rules_file(files, h, loc) ==
    IF h[loc.path] = NoFile THEN files
    ELSE IF h[loc.path] = Unreadable THEN files
    ELSE IF extract_shnote_rules(h[loc.path]) = NoneVal THEN files
    ELSE Append(files, [target |-> loc.target, path |-> loc.path,
                        rules |-> extract_shnote_rules(h[loc.path])])

RECURSIVE PushFrom(_, _, _)
PushFrom(files, h, i) ==
    IF i > Len(Locations) THEN files
    ELSE PushFrom(push_rules_file(files, h, Locations[i]), h, i + 1)

find_rules_files(h, home_ok) == IF ~home_ok THEN <<>> ELSE PushFrom(<<>>, h, 1)

\* Mutant: only the variant with the pueue section is compared.
unmodified_with_pueue_only(rules, expected_with_pueue, expected_without_pueue) ==
    rules = expected_with_pueue

\* check_rules_after_update_with_reader line 332.
unmodified(rules, expected_with_pueue, expected_without_pueue) ==
    rules = expected_with_pueue \/ rules = expected_without_pueue

\* Mutant: the default answer is yes.
prompt_default_yes(line) ==
    LET input == to_lowercase(trim(line))
    IN  input = <<>> \/ input = <<"y">> \/ input = <<"y", "e", "s">>

\* prompt_yes_no_with_reader on the line read_line gave ("" at end of input).
prompt_yes_no_with_reader(line) ==
    LET input == to_lowercase(trim(line))
    IN  input = <<"y">> \/ input = <<"y", "e", "s">>

ReadError == <<"<read error>">>

\* Lines the reader can give to a prompt.
ReaderLines ==
    { <<"y", "\n">>, <<"Y", "\n">>, <<" ", "Y", "E", "S", " ", "\n">>, <<"y", "e", "s">>,
      <<"n", "\n">>, <<"y", "e", "\n">>, <<"\n">>, <<>> }

NoLast ==
    [path |-> "none", target |-> "none", rules |-> NoneVal, unmodified |-> FALSE,
     line |-> NoneVal, invoked |-> FALSE]

\* check_rules_after_update_with_reader lines 321-326.
FindRulesFiles ==
    /\ pc = "rules"
    /\ \E home_ok \in BOOLEAN :
         LET files == find_rules_files(home, home_ok)
         IN  /\ rules_files' = files
             /\ IF files = <<>>
                THEN pc' = "done" /\ rec_result' = "ok" /\ rec_idx' = 0
                ELSE pc' = "rules_loop" /\ rec_result' = rec_result /\ rec_idx' = 1
    /\ steps' = steps \cup {"reconcile"}
    /\ UNCHANGED <<home, lang, pueue_avail, claude_probe, last, call>>
    /\ UNCHANGED <<platform, args, runs, outcome, latest_version, version_raw, temp_binary,
                   temp_checksum, expected_hash, actual_hash, hash_printed, dest, dest_old,
                   dest_before, dest_writes>>

\* One iteration of the loop, lines 328-366, with run_init_with_binary.
ReconcileFile ==
    /\ pc = "rules_loop"
    /\ LET file == rules_files[rec_idx]
           expected_with_pueue == rules_for_target_with_pueue(lang, file.target, TRUE)
           expected_without_pueue == rules_for_target_with_pueue(lang, file.target, FALSE)
           is_unmodified == unmodified(file.rules, expected_with_pueue, expected_without_pueue)
           Continue == IF rec_idx = Len(rules_files)
                       THEN pc' = "done" /\ rec_result' = "ok" /\ rec_idx' = rec_idx
                       ELSE pc' = pc /\ rec_result' = rec_result /\ rec_idx' = rec_idx + 1
           Abort(err) == pc' = "done" /\ rec_result' = err /\ rec_idx' = rec_idx
           Handled(line, invoked) ==
               [path |-> file.path, target |-> file.target, rules |-> file.rules,
                unmodified |-> is_unmodified, line |-> line, invoked |-> invoked]
       IN  \E line \in ReaderLines \cup {ReadError} :
             IF line = ReadError
             THEN /\ Abort("err_read_line")
                  /\ home' = home
                  /\ last' = Handled(line, FALSE)
             ELSE IF ~prompt_yes_no_with_reader(line)
             THEN /\ Continue
                  /\ home' = home
                  /\ last' = Handled(line, FALSE)
             ELSE LET r == run_init(home, lang, file.target, pueue_avail, claude_probe)
                  IN  /\ last' = Handled(line, TRUE)
                      /\ \E child \in ToolResults :
                           IF child = "ok" /\ r.ok
                           THEN Continue /\ home' = r.home
                           ELSE Abort("err_rules_init") /\ home' = home
    /\ UNCHANGED <<lang, pueue_avail, claude_probe, rules_files, call>>
    /\ UNCHANGED <<platform, args, runs, outcome, latest_version, version_raw, temp_binary,
                   temp_checksum, expected_hash, actual_hash, hash_printed, dest, dest_old,
                   dest_before, dest_writes, steps>>

(***************************************************************************)
(* Invocations                                                             *)
(***************************************************************************)
Runnable(bin) == bin \notin {Absent, Partial}

\* main.rs: `shnote update` is run again, from the executable at the install path.
Rerun ==
    /\ pc = "done"
    /\ runs < MaxRuns
    /\ Runnable(dest)
    /\ \E a \in [check : BOOLEAN, force : BOOLEAN] : args' = a
    /\ runs' = runs + 1
    /\ pc' = "start"
    /\ outcome' = "none"
    /\ latest_version' = NoneVal
    /\ version_raw' = NoneVal
    /\ expected_hash' = NoneVal
    /\ actual_hash' = NoneVal
    /\ hash_printed' = NoneVal
    /\ dest_before' = dest
    /\ dest_writes' = 0
    /\ steps' = {}
    /\ rules_files' = <<>>
    /\ rec_idx' = 0
    /\ rec_result' = "none"
    /\ last' = NoLast
    /\ UNCHANGED <<platform, temp_binary, temp_checksum, dest, dest_old, home, lang,
                   pueue_avail, claude_probe, call>>

(***************************************************************************)
(* File systems and environments a run can start from                      *)
(***************************************************************************)
Block(rules) ==
    <<"user-prefix">> \o SHNOTE_MARKER_START \o rules \o SHNOTE_MARKER_END \o <<"user-suffix", "\n">>

\* The rendered rules with one line changed by the user.
EditedRules(target) ==
    <<"base-head:En", "\n", "\n", "user-line", "\n", "\n", "\n", "base-tail:En", "\n",
      "\n", "\n", "extra:En:" \o target, "\n">>

\* What a candidate path can hold: nothing, something unreadable, text without a
\* block, a block as init wrote it (English, with or without the pueue section),
\* an edited block, and a block whose end marker is gone.
FileStates(target) ==
    { NoFile, Unreadable,
      <<"user-text", "\n">>,
      Block(RenderRules("En", target, TRUE)),
      Block(RenderRules("En", target, FALSE)),
      Block(EditedRules(target)),
      <<"user-prefix">> \o SHNOTE_MARKER_START \o RenderRules("En", target, TRUE) }

Homes(n) ==
    { h \in [claude_rules : FileStates("Claude"), claude_md : FileStates("Claude"),
             codex_agents : FileStates("Codex"), gemini_md : FileStates("Gemini")] :
        Cardinality({p \in Paths : h[p] # NoFile}) <= n }

ClaudeProbes ==
    { NoneVal,
      <<"2", ".", "0", ".", "6", "4", " ", "(", "C", "l", "a", "u", "d", "e", ")">>,
      <<"2", ".", "0", ".", "6", "3">> }

InitInstaller ==
    /\ platform \in {"unix", "windows"}
    /\ args \in [check : BOOLEAN, force : BOOLEAN]
    /\ runs = 1
    /\ pc = "start"
    /\ outcome = "none"
    /\ latest_version = NoneVal
    /\ version_raw = NoneVal
    /\ temp_binary = Absent
    /\ temp_checksum = NoFile
    /\ expected_hash = NoneVal
    /\ actual_hash = NoneVal
    /\ hash_printed = NoneVal
    /\ dest = OldBinary
    /\ dest_old \in IF platform = "windows" THEN {Absent, StaleBackup} ELSE {Absent}
    /\ dest_before = dest
    /\ dest_writes = 0
    /\ steps = {}

NoCall == [fn |-> "none"]

InitRulesState ==
    /\ call = NoCall
    /\ rules_files = <<>>
    /\ rec_idx = 0
    /\ rec_result = "none"
    /\ last = NoLast

EmptyHome == [p \in Paths |-> NoFile]

\* Home directories of the update runs: no rules file, an untouched Codex block, an
\* edited Claude block next to an unreadable Gemini file.
UpdateHomes ==
    { EmptyHome,
      [EmptyHome EXCEPT !["codex_agents"] = Block(RenderRules("En", "Codex", TRUE))],
      [EmptyHome EXCEPT !["claude_md"] = Block(EditedRules("Claude")),
                        !["gemini_md"] = Unreadable] }

\* An update invocation from its start.
Init ==
    /\ InitInstaller
    /\ InitRulesState
    /\ home \in UpdateHomes
    /\ lang = "En"
    /\ pueue_avail = TRUE
    /\ claude_probe = NoneVal

\* A reconciliation pass from its start, right after a successful install, on every
\* home directory with at most MaxFiles candidate paths present.
InitRules ==
    /\ platform = "unix"
    /\ args = [check |-> FALSE, force |-> FALSE]
    /\ runs = 1
    /\ pc = "rules"
    /\ outcome = "Installed"
    /\ latest_version = <<"1", ".", "2", ".", "3">>
    /\ version_raw = <<"v", "1", ".", "2", ".", "3", "\n">>
    /\ temp_binary = Absent
    /\ temp_checksum = NoFile
    /\ expected_hash = <<"a", "b">>
    /\ actual_hash = <<"a", "b">>
    /\ hash_printed = <<"a", "b">>
    /\ dest = NewBinary
    /\ dest_old = Absent
    /\ dest_before = OldBinary
    /\ dest_writes = 1
    /\ steps = {"fetch_version", "install", "download_binary", "binary_downloaded", "download_checksum",
                "checksum_downloaded", "verified", "copy"}
    /\ InitRulesState
    /\ home \in Homes(MaxFiles)
    /\ lang \in Langs
    /\ pueue_avail \in BOOLEAN
    /\ claude_probe \in ClaudeProbes

Next ==
    \/ FetchLatestVersion
    \/ AlreadyLatest
    \/ CheckOnly
    \/ GetInstallPath
    \/ DownloadBinary
    \/ DownloadChecksum
    \/ ReadChecksumFile
    \/ ComputeSha256
    \/ VerifyChecksum
    \/ SetPermissions
    \/ RemoveOldBackup
    \/ RenameCurrent
    \/ CopyBinary
    \/ RemoveRenamed
    \/ FindRulesFiles
    \/ ReconcileFile
    \/ Rerun

Spec == Init /\ [][Next]_vars

NextRules ==
    \/ FindRulesFiles
    \/ ReconcileFile

SpecRules == InitRules /\ [][NextRules]_vars

(***************************************************************************)
(* Functions applied on their own: URLs, version parsing, the rules writer *)
(* and the line diff                                                       *)
(***************************************************************************)
MaxSemverLen == 4   \* length of the version texts that are enumerated exhaustively
MaxLines == 3       \* lines of each side of a diff
MaxPieces == 3      \* pieces (user text, markers) a file given to append_rules is made of
MaxAppends == 3     \* consecutive append_rules calls on one file

\* info.rs: REPO and PLATFORM (the target triple of the build).
REPO == "wangnov/shnote"
PLATFORM == "x86_64-unknown-linux-gnu"

\* VERSION_URL.replace("{repo}", REPO)
version_url == <<"https://github.com/", REPO, "/releases/latest/download/VERSION">>

\* BINARY_URL with {repo}, {version} (the tag v<version>) and {platform} replaced.
binary_url(version) ==
    <<"https://github.com/", REPO, "/releases/download/", "v">> \o version
    \o <<"/shnote-", PLATFORM>>

\* CHECKSUM_URL with {repo}, {version} and {platform} replaced.
checksum_url(version) ==
    <<"https://github.com/", REPO, "/releases/download/", "v">> \o version
    \o <<"/shnote-", PLATFORM, ".sha256">>

\* Mutant: the proxy is used as it is given.
apply_github_proxy_keeping_slash(proxy, url) ==
    IF proxy = NoneVal THEN url ELSE proxy \o <<"/">> \o url

apply_github_proxy(proxy, url) ==
    IF proxy = NoneVal THEN url ELSE trim_end_matches(proxy, "/") \o <<"/">> \o url

\* Values of the GITHUB_PROXY environment variable (NoneVal: not set).
Proxies ==
    { NoneVal, <<>>, <<"/">>, <<"p">>, <<"p", "/">>, <<"p", "/", "/">>, <<"p", "/", "q">>,
      <<"p", "/", "q", "/">> }

\* Versions the URLs are built for.
UrlVersions == { <<"1", ".", "2", ".", "3">>, <<"x">>, <<>> }

\* fetch_latest_version lines 71-73 and download_and_install lines 90-106: the URLs
\* handed to download_file.
ApplyGithubProxy ==
    /\ call = NoCall
    /\ \E proxy \in Proxies, version \in UrlVersions :
         call' = [fn |-> "apply_github_proxy", proxy |-> proxy, version |-> version,
                  version_url |-> apply_github_proxy(proxy, version_url),
                  binary_url |-> apply_github_proxy(proxy, binary_url(version)),
                  checksum_url |-> apply_github_proxy(proxy, checksum_url(version))]
    /\ UNCHANGED <<installer_vars, rules_vars>>

TextsUpTo(chars, n) == UNION {[1..k -> chars] : k \in 0..n}

\* A segment whose value does not fit in a u64.
OverflowingDigits == [i \in 1..20 |-> "9"]

VersionSegments == { <<>>, <<"7">>, <<"0", "7">>, OverflowingDigits }

\* Texts given to parse_semver_from_text: every short text over a digit, zero, the
\* dot and a letter, and three-segment tokens with empty and overflowing segments.
SemverTexts ==
    TextsUpTo({"0", "1", ".", "x"}, MaxSemverLen)
    \cup { <<"v">> \o a \o <<".">> \o b \o <<".">> \o c \o <<" ", "x">> :
             a \in VersionSegments, b \in VersionSegments, c \in VersionSegments }

ParseSemverFromText ==
    /\ call = NoCall
    /\ \E text \in SemverTexts :
         call' = [fn |-> "parse_semver_from_text", text |-> text,
                  result |-> parse_semver_from_text(text)]
    /\ UNCHANGED <<installer_vars, rules_vars>>

\* Version lines the claude probe can give (NoneVal: tool not found or no output).
ProbeTexts ==
    { NoneVal,
      <<"2", ".", "0", ".", "6", "4", " ", "(", "C", ")">>,
      <<"2", ".", "0", ".", "6", "3">>,
      <<"2", ".", "1", ".", "0">>,
      <<"1", ".", "9", ".", "9", "9">>,
      <<"v", "2", ".", "0", ".", "1", "0", "0">>,
      <<"3">>,
      <<"2", ".", "0">>,
      <<"x">>,
      <<"2", ".", "0", ".">> \o OverflowingDigits }

\* Home directories init_claude is run on.
ClaudeHomes ==
    { [EmptyHome EXCEPT !["claude_md"] = md, !["claude_rules"] = rf] :
        md \in {NoFile, Unreadable, <<"user-text", "\n">>, Block(RenderRules("En", "Claude", FALSE)),
                Block(EditedRules("Claude"))},
        rf \in {NoFile, <<"old-rules", "\n">>} }

InitClaude ==
    /\ call = NoCall
    /\ \E h \in ClaudeHomes, probe \in ProbeTexts, lg \in Langs, pueue \in BOOLEAN :
         call' = [fn |-> "init_claude", home |-> h, probe |-> probe, lang |-> lg,
                  pueue |-> pueue, result |-> init_claude(h, lg, pueue, probe)]
    /\ UNCHANGED <<installer_vars, rules_vars>>

RECURSIVE Flatten(_)
Flatten(ps) == IF ps = <<>> THEN <<>> ELSE Head(ps) \o Flatten(Tail(ps))

\* The number of places in s where a start marker begins.
StartMarkerCount(s) ==
    Cardinality({i \in 1..Len(s) :
                   /\ i + Len(SHNOTE_MARKER_START) - 1 <= Len(s)
                   /\ SubSeq(s, i, i + Len(SHNOTE_MARKER_START) - 1) = SHNOTE_MARKER_START})

\* What a file handed to append_rules is made of: user text, the two markers, and a
\* start marker whose final newline is missing.
FilePieces ==
    { <<"user-text">>, SHNOTE_MARKER_START, SHNOTE_MARKER_END,
      <<"\n", "<!-- shnote rules start -->">> }

\* Files append_rules is run on: no file, or text with at most one start marker.
AppendFiles ==
    {NoFile} \cup
    { f \in {Flatten(ps) : ps \in TextsUpTo(FilePieces, MaxPieces)} :
        StartMarkerCount(f) <= 1 }

AppendedRules == { RenderRules("En", "Codex", TRUE), RenderRules("En", "Codex", FALSE) }

\* init_codex / init_gemini / init_claude line 831: append_rules on a file.
AppendRules ==
    /\ call = NoCall
    /\ \E file \in AppendFiles, rules \in AppendedRules :
         call' = [fn |-> "append_rules", initial |-> file, rules |-> rules, n |-> 1,
                  file |-> append_rules(file, rules).file]
    /\ UNCHANGED <<installer_vars, rules_vars>>

\* init is run again on the file the previous init wrote.
AppendRulesAgain ==
    /\ call.fn = "append_rules"
    /\ call.n < MaxAppends
    /\ \E rules \in AppendedRules :
         call' = [call EXCEPT !.rules = rules, !.n = call.n + 1,
                              !.file = append_rules(call.file, rules).file]
    /\ UNCHANGED <<installer_vars, rules_vars>>

Max(a, b) == IF a >= b THEN a ELSE b

\* Mutant: the table looks at the rest of the old lines only.
lcs_table_old_only(old_lines, new_lines) ==
    LET dp[i \in 0..Len(old_lines), j \in 0..Len(new_lines)] ==
            IF i = Len(old_lines) \/ j = Len(new_lines) THEN 0
            ELSE IF old_lines[i + 1] = new_lines[j + 1] THEN dp[i + 1, j + 1] + 1
            ELSE dp[i + 1, j]
    IN  dp

\* lcs_table: dp[i, j] is filled from the end (indices from 0, as in the code).
lcs_table(old_lines, new_lines) ==
    LET dp[i \in 0..Len(old_lines), j \in 0..Len(new_lines)] ==
            IF i = Len(old_lines) \/ j = Len(new_lines) THEN 0
            ELSE IF old_lines[i + 1] = new_lines[j + 1] THEN dp[i + 1, j + 1] + 1
            ELSE Max(dp[i + 1, j], dp[i, j + 1])
    IN  dp

\* Mutant: the prefix character is left out.
diff_line_without_prefix(prefix, line) == line \o <<"\n">>

\* Mutant: every line is marked as deleted.
diff_line_always_deleted(prefix, line) == <<"-">> \o line \o <<"\n">>

\* render_diff: out.push(prefix); out.push_str(line); out.push('\n')
diff_line(prefix, line) == <<prefix>> \o line \o <<"\n">>

\* Mutant: on a tie the insertion is emitted first (> instead of >=).
RECURSIVE RenderWalkInsertionFirst(_, _, _, _, _)
RenderWalkInsertionFirst(old_lines, new_lines, dp, i, j) ==
    IF i < Len(old_lines) /\ j < Len(new_lines)
    THEN IF old_lines[i + 1] = new_lines[j + 1]
         THEN diff_line(" ", old_lines[i + 1])
              \o RenderWalkInsertionFirst(old_lines, new_lines, dp, i + 1, j + 1)
         ELSE IF dp[i + 1, j] > dp[i, j + 1]
         THEN diff_line("-", old_lines[i + 1])
              \o RenderWalkInsertionFirst(old_lines, new_lines, dp, i + 1, j)
         ELSE diff_line("+", new_lines[j + 1])
              \o RenderWalkInsertionFirst(old_lines, new_lines, dp, i, j + 1)
    ELSE IF i < Len(old_lines)
    THEN diff_line("-", old_lines[i + 1])
         \o RenderWalkInsertionFirst(old_lines, new_lines, dp, i + 1, j)
    ELSE IF j < Len(new_lines)
    THEN diff_line("+", new_lines[j + 1])
         \o RenderWalkInsertionFirst(old_lines, new_lines, dp, i, j + 1)
    ELSE <<>>

\* The loops of render_diff from position (i, j).
RECURSIVE RenderWalk(_, _, _, _, _)
RenderWalk(old_lines, new_lines, dp, i, j) ==
    IF i < Len(old_lines) /\ j < Len(new_lines)
    THEN IF old_lines[i + 1] = new_lines[j + 1]
         THEN diff_line(" ", old_lines[i + 1]) \o RenderWalk(old_lines, new_lines, dp, i + 1, j + 1)
         ELSE IF dp[i + 1, j] >= dp[i, j + 1]
         THEN diff_line("-", old_lines[i + 1]) \o RenderWalk(old_lines, new_lines, dp, i + 1, j)
         ELSE diff_line("+", new_lines[j + 1]) \o RenderWalk(old_lines, new_lines, dp, i, j + 1)
    ELSE IF i < Len(old_lines)
    THEN diff_line("-", old_lines[i + 1]) \o RenderWalk(old_lines, new_lines, dp, i + 1, j)
    ELSE IF j < Len(new_lines)
    THEN diff_line("+", new_lines[j + 1]) \o RenderWalk(old_lines, new_lines, dp, i, j + 1)
    ELSE <<>>

render_diff(old, new) ==
    RenderWalk(lines(old), lines(new), lcs_table(lines(old), lines(new)), 0, 0)

\* The loop of diff_score from position (i, j), with the final additions.
RECURSIVE ScoreWalk(_, _, _, _, _)
ScoreWalk(old_lines, new_lines, dp, i, j) ==
    IF i < Len(old_lines) /\ j < Len(new_lines)
    THEN IF old_lines[i + 1] = new_lines[j + 1]
         THEN ScoreWalk(old_lines, new_lines, dp, i + 1, j + 1)
         ELSE IF dp[i + 1, j] >= dp[i, j + 1]
         THEN 1 + ScoreWalk(old_lines, new_lines, dp, i + 1, j)
         ELSE 1 + ScoreWalk(old_lines, new_lines, dp, i, j + 1)
    ELSE (Len(old_lines) - i) + (Len(new_lines) - j)

diff_score(old, new) ==
    ScoreWalk(lines(old), lines(new), lcs_table(lines(old), lines(new)), 0, 0)

\* A text made of the given lines, each one terminated by a newline.
RECURSIVE JoinLines(_)
JoinLines(ls) == IF ls = <<>> THEN <<>> ELSE Head(ls) \o <<"\n">> \o JoinLines(Tail(ls))

\* The texts that are compared: up to MaxLines lines, each a, b or empty.
DiffTexts == { JoinLines(ls) : ls \in TextsUpTo({<<"a">>, <<"b">>, <<>>}, MaxLines) }

\* print_rules_diff / pick_reference_template: the diff of two texts.
RenderDiff ==
    /\ call = NoCall
    /\ \E old \in DiffTexts, new \in DiffTexts :
         call' = [fn |-> "render_diff", old |-> old, new |-> new,
                  rendered |-> render_diff(old, new), score |-> diff_score(old, new)]
    /\ UNCHANGED <<installer_vars, rules_vars>>

\* Mutant: on equal scores the second template is taken.
pick_reference_template_strict(rules, a, b) ==
    IF diff_score(rules, a) < diff_score(rules, b) THEN a ELSE b

pick_reference_template(rules, a, b) ==
    IF diff_score(rules, a) <= diff_score(rules, b) THEN a ELSE b

\* Templates a block is compared with: up to two lines, each a or b.
ReferenceTexts == { JoinLines(ls) : ls \in TextsUpTo({<<"a">>, <<"b">>}, 2) }

PickReferenceTemplate ==
    /\ call = NoCall
    /\ \E rules \in DiffTexts, a \in ReferenceTexts, b \in ReferenceTexts :
         call' = [fn |-> "pick_reference_template", rules |-> rules, a |-> a, b |-> b,
                  result |-> pick_reference_template(rules, a, b)]
    /\ UNCHANGED <<installer_vars, rules_vars>>

\* check_rules_after_update_with_reader lines 347-348: the reference of a block.
reference_template(rules, lg, target) ==
    pick_reference_template(rules, rules_for_target_with_pueue(lg, target, TRUE),
                            rules_for_target_with_pueue(lg, target, FALSE))

\* Blocks that are not a rendered variant.
ModifiedBlocks(lg, target) ==
    { EditedRules(target), <<"user-line", "\n">>, <<>>,
      RenderRules(lg, target, TRUE) \o <<"user-line", "\n">>,
      <<"user-line", "\n">> \o RenderRules(lg, target, FALSE) }

ReferenceForBlock ==
    /\ call = NoCall
    /\ \E lg \in Langs, target \in Targets :
         \E rules \in ModifiedBlocks(lg, target) :
           call' = [fn |-> "reference_template", lang |-> lg, target |-> target,
                    rules |-> rules, result |-> reference_template(rules, lg, target)]
    /\ UNCHANGED <<installer_vars, rules_vars>>

\* Contents extract_shnote_rules is applied to: the pieces of FilePieces and an end
\* marker whose first newline is missing (so that it can share the last newline of a
\* start marker).
ExtractContents ==
    { Flatten(ps) :
        ps \in TextsUpTo(FilePieces \cup {<<"<!-- shnote rules end -->", "\n">>}, MaxPieces) }

ExtractShnoteRules ==
    /\ call = NoCall
    /\ \E content \in ExtractContents :
         call' = [fn |-> "extract_shnote_rules", content |-> content,
                  result |-> extract_shnote_rules(content)]
    /\ UNCHANGED <<installer_vars, rules_vars>>

\* download_file with every outcome of the tools it may start.
DownloadFile ==
    /\ call = NoCall
    /\ \E plat \in {"unix", "windows"}, curl \in ToolResults, wget \in ToolResults,
          powershell \in ToolResults :
         call' = [fn |-> "download_file", platform |-> plat, curl |-> curl, wget |-> wget,
                  powershell |-> powershell,
                  invoked |-> download_tools_invoked(plat, curl, wget, powershell),
                  result |-> download_file(plat, curl, wget, powershell)]
    /\ UNCHANGED <<installer_vars, rules_vars>>

\* What ~/.claude/rules/shnote.md holds before a migration.
NewFilesBefore == { NoFile, <<"old-rules", "\n">> }

\* migrate_shnote_rules on an existing CLAUDE.md with at most one start marker.
MigrateShnoteRules ==
    /\ call = NoCall
    /\ \E old \in AppendFiles \ {NoFile}, new \in NewFilesBefore, rules \in AppendedRules :
         LET h == [EmptyHome EXCEPT !["claude_md"] = old, !["claude_rules"] = new]
         IN  call' = [fn |-> "migrate_shnote_rules", home |-> h, rules |-> rules,
                      result |-> migrate_shnote_rules(h, rules)]
    /\ UNCHANGED <<installer_vars, rules_vars>>

\* Home directories init is run on: nothing there yet, user text at every candidate
\* path, or an edited managed block at every candidate path.
InitHomes ==
    { EmptyHome,
      [p \in Paths |-> <<"user-text", "\n">>],
      [claude_rules |-> Block(EditedRules("Claude")), claude_md |-> Block(EditedRules("Claude")),
       codex_agents |-> Block(EditedRules("Codex")), gemini_md |-> Block(EditedRules("Gemini"))] }

\* run_init at user scope, then find_rules_files on what it left on disk.
InitThenFindRulesFiles ==
    /\ call = NoCall
    /\ \E h \in InitHomes, target \in Targets, lg \in Langs, pueue \in BOOLEAN,
          probe \in ClaudeProbes :
         LET r == run_init(h, lg, target, pueue, probe)
         IN  call' = [fn |-> "init_then_find", home |-> h, target |-> target, lang |-> lg,
                      pueue |-> pueue, probe |-> probe, result |-> r,
                      files |-> find_rules_files(r.home, TRUE)]
    /\ UNCHANGED <<installer_vars, rules_vars>>

\* No update invocation runs: one function is applied to one of the inputs above.
InitLib ==
    /\ platform = "unix"
    /\ args = [check |-> FALSE, force |-> FALSE]
    /\ runs = 0
    /\ pc = "idle"
    /\ outcome = "none"
    /\ latest_version = NoneVal
    /\ version_raw = NoneVal
    /\ temp_binary = Absent
    /\ temp_checksum = NoFile
    /\ expected_hash = NoneVal
    /\ actual_hash = NoneVal
    /\ hash_printed = NoneVal
    /\ dest = OldBinary
    /\ dest_old = Absent
    /\ dest_before = OldBinary
    /\ dest_writes = 0
    /\ steps = {}
    /\ InitRulesState
    /\ home = EmptyHome
    /\ lang = "En"
    /\ pueue_avail = FALSE
    /\ claude_probe = NoneVal

NextLib ==
    \/ ApplyGithubProxy
    \/ ParseSemverFromText
    \/ InitClaude
    \/ AppendRules
    \/ AppendRulesAgain
    \/ RenderDiff
    \/ PickReferenceTemplate
    \/ ReferenceForBlock
    \/ ExtractShnoteRules
    \/ DownloadFile
    \/ MigrateShnoteRules
    \/ InitThenFindRulesFiles

SpecLib == InitLib /\ [][NextLib]_vars

(***************************************************************************)
(* Properties of the update invocation (checked under Spec)                *)
(***************************************************************************)
InstallerErrors ==
    {"err_temp_dir", "err_download_no_tool", "err_download_failed", "err_download_powershell",
     "err_read_version", "err_install_path", "err_read_checksum", "err_shasum_run",
     "err_shasum_failed", "err_shasum_parse", "err_certutil_run", "err_certutil_failed",
     "err_certutil_parse", "err_checksum_mismatch", "err_set_permissions", "err_rename_old",
     "err_replace_binary"}

\* Failures of the binary download, the checksum download, the hash computation and
\* the comparison.
VerificationFailures ==
    {"err_download_no_tool", "err_download_failed", "err_download_powershell",
     "err_read_checksum", "err_shasum_run", "err_shasum_failed", "err_shasum_parse",
     "err_certutil_run", "err_certutil_failed", "err_certutil_parse", "err_checksum_mismatch"}

\* C1: during an update invocation the destination path is written at most once, and
\* it is touched only after the binary and the checksum file were both downloaded and
\* the two hashes compared equal; when a download, the hash computation or the
\* comparison fails, the destination holds what it held before the invocation.
C1_DestWrittenOnceAfterVerification ==
    /\ dest_writes <= 1
    /\ (dest_writes > 0 \/ dest # dest_before) =>
          /\ "binary_downloaded" \in steps
          /\ "checksum_downloaded" \in steps
          /\ actual_hash # NoneVal
          /\ actual_hash = expected_hash
    /\ outcome \in VerificationFailures => dest = dest_before /\ dest_writes = 0

C1_Witness == outcome = "Installed" /\ dest_writes = 1 /\ dest # dest_before

\* replace_binary has returned, with success or with an error.
ReplaceReturned ==
    outcome \in {"Installed", "err_set_permissions", "err_rename_old", "err_replace_binary"}

\* C2: after replace_binary returns, with success or with an error from any of its
\* steps, the destination holds the complete previous executable or the complete new
\* one: it is never missing and never truncated or partly written.
C2_ReplaceIsAtomic ==
    ReplaceReturned => dest # Absent /\ dest # Partial /\ dest \in {dest_before, NewBinary, CorruptBinary}

\* C3: when the computed hash differs from the hash of the checksum resource,
\* download_and_install returns the checksum-mismatch error, nothing is installed and
\* the scratch binary file is gone once the call has returned.
C3_MismatchRejectedAndScratchRemoved ==
    (actual_hash # NoneVal /\ actual_hash # expected_hash /\ pc # "verify") =>
        /\ outcome = "err_checksum_mismatch"
        /\ pc = "done"
        /\ dest = dest_before
        /\ dest_writes = 0
        /\ temp_binary = Absent

C3_Witness ==
    /\ outcome = "err_checksum_mismatch"
    /\ actual_hash = <<"a", "c">>
    /\ expected_hash = <<"a", "b">>
    /\ temp_binary = Absent

VerificationDecided == "verified" \in steps \/ "mismatch" \in steps

\* C4: checksum verification passes if and only if the hash the tool computed and the
\* first whitespace-delimited token of the checksum file are equal after lower-casing
\* both sides (expected_hash is that token, lower-cased).
C4_ChecksumComparedCaseInsensitively ==
    VerificationDecided =>
        ("verified" \in steps <=> to_lowercase(hash_printed) = expected_hash)

\* C5: run_update goes on to the download and install if and only if the check flag
\* is unset and (the current version differs from the fetched latest version or the
\* force flag is set); with current = latest and no force it ends as AlreadyLatest; with
\* the check flag set it ends without downloading the binary or touching the
\* destination, whatever the force flag and the versions are.
C5_DownloadDecision ==
    (latest_version # NoneVal /\ pc # "compare") =>
        /\ "install" \in steps <=>
              (~args.check /\ (VERSION # latest_version \/ args.force))
        /\ "download_binary" \in steps =>
              (~args.check /\ (VERSION # latest_version \/ args.force))
        /\ (VERSION = latest_version /\ ~args.force) => outcome = "AlreadyLatest"
        /\ args.check =>
              /\ outcome \in {"AlreadyLatest", "CheckOnly"}
              /\ "download_binary" \notin steps
              /\ dest = dest_before
              /\ dest_writes = 0

C5_Witness ==
    /\ args.force
    /\ ~args.check
    /\ latest_version = VERSION
    /\ "download_binary" \in steps

\* A well-formed major.minor.patch version: three non-empty runs of digits.
WellFormedVersion(v) ==
    LET parts == split(v, ".")
    IN  /\ Len(parts) = 3
        /\ \A i \in 1..3 :
             /\ parts[i] # <<>>
             /\ \A k \in 1..Len(parts[i]) : IsAsciiDigit(parts[i][k])

\* C6: a version resource that, trimmed and without its leading v, is not a
\* well-formed major.minor.patch version is rejected: run_update returns an error and
\* starts no binary download for it.
C6_MalformedVersionRejected ==
    (latest_version # NoneVal /\ ~WellFormedVersion(latest_version)) =>
        /\ "download_binary" \notin steps
        /\ pc \in {"compare", "done"}
        /\ pc = "done" => outcome \in InstallerErrors

\* C7: within one invocation the managed-block reconciliation starts only after the
\* installer has completed successfully; it never runs when the outcome is
\* AlreadyLatest, CheckOnly or an error.
C7_ReconcileOnlyAfterInstalled ==
    /\ ("reconcile" \in steps \/ pc \in {"rules", "rules_loop"} \/ rec_result # "none"
          \/ rules_files # <<>> \/ last # NoLast) =>
          /\ outcome = "Installed"
          /\ "verified" \in steps
          /\ "copy" \in steps
          /\ Runnable(dest)
    /\ outcome \in {"AlreadyLatest", "CheckOnly"} \cup InstallerErrors =>
          "reconcile" \notin steps /\ rec_result = "none"

C7_Witness == "reconcile" \in steps /\ pc = "rules_loop" /\ outcome = "Installed"

(***************************************************************************)
(* Properties of the reconciliation pass (checked under SpecRules)         *)
(***************************************************************************)
\* find_rules_files has run and the loop has handled no file yet, so the home
\* directory is still the one the pass started on.
LocationsJustScanned == "reconcile" \in steps /\ last = NoLast

\* C8: if a candidate location exists on disk but reading it fails, the
\* reconciliation pass returns an error and stops; the read failure is not skipped.
C8_ReadFailureAbortsPass ==
    (LocationsJustScanned /\ \E p \in Paths : home[p] = Unreadable) =>
        /\ pc = "done"
        /\ rec_result \notin {"none", "ok"}

\* The answer, trimmed and lower-cased, is y or yes.
AnswerIsYes(line) ==
    /\ line # ReadError
    /\ to_lowercase(trim(line)) \in {<<"y">>, <<"y", "e", "s">>}

\* C9: for every reconciled location the content writer (init for the location's
\* target) is invoked if and only if the line read for its prompt, trimmed and
\* lower-cased, is y or yes; on any other answer, empty input and end of input
\* included, the writer is not invoked and no file changes.
C9_WriterInvokedIffYes ==
    [][ pc = "rules_loop" =>
          /\ last'.path = rules_files[rec_idx].path
          /\ last'.invoked <=> AnswerIsYes(last'.line)
          /\ ~AnswerIsYes(last'.line) => home' = home
          /\ last'.line \in {<<"y", "\n">>, <<"Y", "\n">>, <<" ", "Y", "E", "S", " ", "\n">>,
                             <<"y", "e", "s">>} => last'.invoked
          /\ last'.line \in {<<"n", "\n">>, <<"y", "e", "\n">>, <<"\n">>, <<>>, ReadError}
                => ~last'.invoked /\ home' = home ]_vars

C9_Witness ==
    /\ last.path = "codex_agents"
    /\ last.line = <<>>
    /\ ~last.invoked
    /\ pc = "done"
    /\ rec_result = "ok"

\* C10: a managed block is classified Unmodified if and only if its extracted text
\* equals the rendered template of at least one feature variant (with or without the
\* pueue section) of the location's target; a block produced by rendering a variant is
\* extracted as that rendering, hence classified Unmodified.
C10_UnmodifiedIffEqualsVariant ==
    /\ last.path # "none" =>
          (last.unmodified <=>
              \E v \in BOOLEAN : last.rules = RenderRules(lang, last.target, v))
    /\ LocationsJustScanned =>
          \A i \in 1..Len(rules_files), v \in BOOLEAN :
              home[rules_files[i].path] = Block(RenderRules(lang, rules_files[i].target, v))
                  => rules_files[i].rules = RenderRules(lang, rules_files[i].target, v)

C10_Witness ==
    /\ last.unmodified
    /\ last.target = "Gemini"
    /\ last.rules = RenderRules(lang, "Gemini", FALSE)

\* C11: when the block of a location is classified Unmodified and the answer is yes,
\* the rewrite leaves every file of the home directory with the content it had: the
\* write is a no-op, whatever the target and whichever variant the block equals.
C11_UnmodifiedRewriteIsNoOp ==
    [][ (pc = "rules_loop" /\ last'.unmodified /\ last'.invoked
           /\ rec_result' # "err_rules_init") => home' = home ]_vars

\* The location at path p is skipped by push_rules_file in home directory h.
Skipped(h, p) ==
    \/ h[p] = NoFile
    \/ h[p] # Unreadable /\ find(h[p], SHNOTE_MARKER_START) = 0

C13_OriginalKeptOnReplaceError ==
    (platform = "windows" /\ outcome \in {"err_rename_old", "err_replace_binary"}) =>
        (dest = dest_before \/ dest_old = dest_before)

C13_Witness ==
    /\ platform = "windows"
    /\ outcome = "err_replace_binary"
    /\ dest \in {Absent, Partial}
    /\ dest_old = dest_before

(***************************************************************************)
(* Properties of the functions applied on their own (checked under SpecLib) *)
(***************************************************************************)
\* The probed version text parses to a version that is at least 2.0.64.
AtLeast2064(probe) ==
    /\ probe # NoneVal
    /\ parse_semver_from_text(probe) # NoneVal
    /\ LET v == parse_semver_from_text(probe)
       IN  \/ v[1] > 2
           \/ v[1] = 2 /\ v[2] > 0
           \/ v[1] = 2 /\ v[2] = 0 /\ v[3] >= 64

\* The file holds the rules between a start and an end marker.
HoldsManagedBlock(file, rules) ==
    file \notin {NoFile, Unreadable}
    /\ find(file, SHNOTE_MARKER_START \o rules \o SHNOTE_MARKER_END) # 0

\* C14: init for the Claude target writes the rules to .claude/rules/shnote.md if and
\* only if the probed version text parses to a version >= 2.0.64 in (major, minor,
\* patch) order; when the tool is not found, the text does not parse or the version is
\* lower, the rules go into .claude/CLAUDE.md as a marker-delimited block and the
\* rules file is left alone.
C14_ClaudeLayoutGatedByVersion ==
    (call.fn = "init_claude" /\ call.result.ok) =>
        LET rules == RenderRules(call.lang, "Claude", call.pueue)
            after == call.result.home
        IN  /\ after["claude_rules"] = rules <=> AtLeast2064(call.probe)
            /\ AtLeast2064(call.probe) => ~HoldsManagedBlock(after["claude_md"], rules)
            /\ ~AtLeast2064(call.probe) =>
                  /\ HoldsManagedBlock(after["claude_md"], rules)
                  /\ after["claude_rules"] = call.home["claude_rules"]
            /\ call.probe \in { <<"2", ".", "0", ".", "6", "4", " ", "(", "C", ")">>,
                                <<"2", ".", "1", ".", "0">>, <<"3">>,
                                <<"v", "2", ".", "0", ".", "1", "0", "0">> }
                  => after["claude_rules"] = rules
            /\ call.probe \in { NoneVal, <<"x">>, <<"2", ".", "0", ".", "6", "3">>,
                                <<"1", ".", "9", ".", "9", "9">>, <<"2", ".", "0">> }
                  => HoldsManagedBlock(after["claude_md"], rules)

C14_Witness ==
    /\ call.fn = "init_claude"
    /\ call.probe = <<"2", ".", "0", ".", "6", "4", " ", "(", "C", ")">>
    /\ call.home["claude_md"] = <<"user-text", "\n">>
    /\ call.result.ok
    /\ call.result.home["claude_rules"] = RenderRules(call.lang, "Claude", call.pueue)
    /\ call.result.home["claude_md"] = <<"user-text", "\n">>

\* C15: after append_rules has run one or more times on a file that held at most one
\* start marker, the file holds exactly one start marker.
C15_ExactlyOneStartMarker ==
    call.fn = "append_rules" => StartMarkerCount(call.file) = 1

\* All trailing slashes of the proxy value removed.
WithoutTrailingSlash(p) ==
    LET k == CHOOSE n \in 0..Len(p) :
                 /\ n = 0 \/ p[n] # "/"
                 /\ \A i \in (n + 1)..Len(p) : p[i] = "/"
    IN  SubSeq(p, 1, k)

\* The URL requested for a resource whose direct URL is given.
ProxiedAsSpecified(url, proxy, direct) ==
    /\ proxy = NoneVal => url = direct
    /\ proxy # NoneVal =>
          /\ url = WithoutTrailingSlash(proxy) \o <<"/">> \o direct
          /\ apply_github_proxy(proxy \o <<"/">>, direct) = url
          /\ apply_github_proxy(WithoutTrailingSlash(proxy), direct) = url

\* C16: each URL that is requested (version, binary, checksum) is the direct URL when
\* no proxy is configured, and otherwise the proxy value without its trailing slash,
\* then "/", then the direct URL; the proxy with and without a trailing slash give
\* the same URL.
C16_ProxyPrefixesEveryUrl ==
    call.fn = "apply_github_proxy" =>
        /\ ProxiedAsSpecified(call.version_url, call.proxy, version_url)
        /\ ProxiedAsSpecified(call.binary_url, call.proxy, binary_url(call.version))
        /\ ProxiedAsSpecified(call.checksum_url, call.proxy, checksum_url(call.version))

C16_Witness ==
    /\ call.fn = "apply_github_proxy"
    /\ call.proxy = <<"p", "/", "q", "/">>
    /\ call.checksum_url = <<"p", "/", "q", "/">> \o checksum_url(<<"1", ".", "2", ".", "3">>)

DigitChar(n) ==
    CASE n = 0 -> "0" [] n = 1 -> "1" [] n = 2 -> "2" [] n = 3 -> "3" [] n = 4 -> "4"
      [] n = 5 -> "5" [] n = 6 -> "6" [] n = 7 -> "7" [] n = 8 -> "8" [] OTHER -> "9"

\* The decimal digits of a natural number, without leading zeros.
RECURSIVE ToDigits(_)
ToDigits(n) == IF n < 10 THEN <<DigitChar(n)>> ELSE ToDigits(n \div 10) \o <<DigitChar(n % 10)>>

\* The canonical rendering major.minor.patch of a version.
RenderSemVer(v) == ToDigits(v[1]) \o <<".">> \o ToDigits(v[2]) \o <<".">> \o ToDigits(v[3])

\* C17: when parse_semver_from_text gives a version for a text, parsing the canonical
\* rendering major.minor.patch of that version gives the same version again.
C17_SemverRoundTrip ==
    (call.fn = "parse_semver_from_text" /\ call.result # NoneVal) =>
        parse_semver_from_text(RenderSemVer(call.result)) = call.result

C17_Witness ==
    /\ call.fn = "parse_semver_from_text"
    /\ call.text = <<"v", "0", "7", ".", "7", ".", "0", "7", " ", "x">>
    /\ call.result = <<7, 7, 7>>

\* The segments of the digits-and-dots token of a text that holds a digit.
TokenSegments(text) ==
    LET start == CHOOSE i \in 1..Len(text) :
                     IsAsciiDigit(text[i]) /\ \A j \in 1..(i - 1) : ~IsAsciiDigit(text[j])
    IN  split(trim_matches(TakeVersionChars(SubSeq(text, start, Len(text))), "."), ".")

\* A segment that is a non-negative integer in the u64 range.
ParsesAsInteger(seg) == seg # <<>> /\ ~overflows_u64(seg)

\* C18: parse_semver_from_text gives None whenever the major, the minor or the patch
\* segment of the token fails to parse as a non-negative integer (empty or
\* overflowing); only a minor or patch segment that is missing defaults to 0.
C18_UnparsableSegmentFailsParse ==
    (call.fn = "parse_semver_from_text" /\ \E i \in 1..Len(call.text) : IsAsciiDigit(call.text[i])) =>
        LET parts == TokenSegments(call.text)
        IN  /\ (\E k \in 1..Len(parts) : k <= 3 /\ ~ParsesAsInteger(parts[k]))
                  => call.result = NoneVal
            /\ (call.result # NoneVal /\ Len(parts) < 2) => call.result[2] = 0
            /\ (call.result # NoneVal /\ Len(parts) < 3) => call.result[3] = 0

RECURSIVE IsSubsequence(_, _)
IsSubsequence(x, y) ==
    IF x = <<>> THEN TRUE
    ELSE IF y = <<>> THEN FALSE
    ELSE IF Head(x) = Head(y) THEN IsSubsequence(Tail(x), Tail(y))
    ELSE IsSubsequence(x, Tail(y))

\* The elements of a at the positions of S, in order.
RECURSIVE PickFrom(_, _, _)
PickFrom(a, S, i) ==
    IF i > Len(a) THEN <<>>
    ELSE (IF i \in S THEN <<a[i]>> ELSE <<>>) \o PickFrom(a, S, i + 1)

\* Length of a longest common subsequence, by trying every subsequence of a.
LcsLength(a, b) ==
    LET common == {S \in SUBSET (1..Len(a)) : IsSubsequence(PickFrom(a, S, 1), b)}
    IN  CHOOSE k \in 0..Len(a) :
            /\ \E S \in common : Cardinality(S) = k
            /\ \A S \in common : Cardinality(S) <= k

\* C19: diff_score(old, new) is the minimum number of line insertions and deletions
\* that turn old into new: len(old) + len(new) - 2 * LCS(old, new), LCS being the length
\* of a longest common subsequence of the two line sequences.
C19_ScoreIsMinimalEditCount ==
    call.fn = "render_diff" =>
        call.score = Len(lines(call.old)) + Len(lines(call.new))
                     - 2 * LcsLength(lines(call.old), lines(call.new))

C19_Witness ==
    /\ call.fn = "render_diff"
    /\ lines(call.old) = << <<"a">>, <<"b">>, <<"a">> >>
    /\ lines(call.new) = << <<"b">>, <<"a">>, <<"b">> >>
    /\ call.score = 2

\* Every line with a single space put in front and a newline after it.
RECURSIVE SpacePrefixed(_)
SpacePrefixed(ls) ==
    IF ls = <<>> THEN <<>> ELSE <<" ">> \o Head(ls) \o <<"\n">> \o SpacePrefixed(Tail(ls))

\* C20: render_diff(x, x) is the lines of x in order, each with a single space in
\* front, with no line marked + or -, and diff_score(x, x) is 0.
C20_DiffOfEqualTexts ==
    (call.fn = "render_diff" /\ call.old = call.new) =>
        /\ call.rendered = SpacePrefixed(lines(call.old))
        /\ \A k \in 1..Len(lines(call.rendered)) : Head(lines(call.rendered)[k]) = " "
        /\ Len(lines(call.rendered)) = Len(lines(call.old))
        /\ call.score = 0

C20_Witness ==
    /\ call.fn = "render_diff"
    /\ call.old = call.new
    /\ lines(call.old) = << <<"a">>, <<>>, <<"b">> >>
    /\ call.score = 0

\* C21: the reference template is the variant with the lowest diff score against the
\* block, and on equal scores it is the first one, which at the call site is the
\* variant with the pueue section.
C21_ReferenceIsClosestFirstOnTie ==
    /\ call.fn = "pick_reference_template" =>
          /\ call.result \in {call.a, call.b}
          /\ diff_score(call.rules, call.result) <= diff_score(call.rules, call.a)
          /\ diff_score(call.rules, call.result) <= diff_score(call.rules, call.b)
          /\ diff_score(call.rules, call.a) = diff_score(call.rules, call.b)
                => call.result = call.a
    /\ call.fn = "reference_template" =>
          LET with == RenderRules(call.lang, call.target, TRUE)
              without == RenderRules(call.lang, call.target, FALSE)
          IN  /\ call.result \in {with, without}
              /\ call.result = with <=>
                    diff_score(call.rules, with) <= diff_score(call.rules, without)

C21_Witness ==
    /\ call.fn = "pick_reference_template"
    /\ call.a # call.b
    /\ diff_score(call.rules, call.a) = diff_score(call.rules, call.b)
    /\ diff_score(call.rules, call.a) > 0
    /\ call.result = call.a

\* The positions of s where the marker m begins.
MarkerPositions(s, m) ==
    {i \in 1..Len(s) : i + Len(m) - 1 <= Len(s) /\ SubSeq(s, i, i + Len(m) - 1) = m}

Least(S) == CHOOSE x \in S : \A y \in S : x <= y

\* The position right after the first start marker.
AfterFirstStart(s) == Least(MarkerPositions(s, SHNOTE_MARKER_START)) + Len(SHNOTE_MARKER_START)

\* The positions of the end markers that follow the first start marker.
EndsAfterFirstStart(s) ==
    {e \in MarkerPositions(s, SHNOTE_MARKER_END) : e >= AfterFirstStart(s)}

\* C22: extract_shnote_rules gives None when the content has no start marker;
\* otherwise exactly the text between the first start marker and the first end marker
\* that follows it, markers excluded, or the text from after the start marker to the
\* end of the content when no end marker follows.
C22_ExtractBetweenMarkers ==
    call.fn = "extract_shnote_rules" =>
        LET c == call.content
        IN  IF MarkerPositions(c, SHNOTE_MARKER_START) = {}
            THEN call.result = NoneVal
            ELSE IF EndsAfterFirstStart(c) = {}
            THEN call.result = SubSeq(c, AfterFirstStart(c), Len(c))
            ELSE call.result = SubSeq(c, AfterFirstStart(c), Least(EndsAfterFirstStart(c)) - 1)

C22_Witness ==
    /\ call.fn = "extract_shnote_rules"
    /\ call.content = SHNOTE_MARKER_END \o SHNOTE_MARKER_START \o <<"user-text">>
    /\ call.result = <<"user-text">>

\* Every line with the given character put in front and a newline after it.
RECURSIVE Prefixed(_, _)
Prefixed(c, ls) ==
    IF ls = <<>> THEN <<>> ELSE <<c>> \o Head(ls) \o <<"\n">> \o Prefixed(c, Tail(ls))

\* C23: where the current old and new lines differ and advancing in old or in new
\* leaves the same remaining LCS length, render_diff emits the deletion first; for two
\* texts without a common line the output is every old line as a - line followed by
\* every new line as a + line.
C23_DeletionBeforeInsertion ==
    call.fn = "render_diff" =>
        LET o == lines(call.old)
            n == lines(call.new)
        IN  /\ (o # <<>> /\ n # <<>> /\ Head(o) # Head(n)
                  /\ LcsLength(Tail(o), n) = LcsLength(o, Tail(n)))
                  => /\ lines(call.rendered)[1] = <<"-">> \o Head(o)
                     /\ call.rendered = <<"-">> \o Head(o) \o <<"\n">>
                                        \o render_diff(JoinLines(Tail(o)), call.new)
            /\ (\A i \in 1..Len(o), j \in 1..Len(n) : o[i] # n[j])
                  => call.rendered = Prefixed("-", o) \o Prefixed("+", n)

C23_Witness ==
    /\ call.fn = "render_diff"
    /\ lines(call.old) = << <<"a">>, <<"b">> >>
    /\ lines(call.new) = << <<"b">>, <<"a">> >>
    /\ call.rendered = <<"-", "a", "\n", " ", "b", "\n", "+", "a", "\n">>

\* C26: download_file starts curl first and starts wget only when curl could not be
\* started or exited non-zero; it succeeds when one of the two succeeds and returns an
\* error when both fail; no tool is started a second time.
C26_CurlThenWgetOnce ==
    (call.fn = "download_file" /\ call.platform = "unix") =>
        /\ call.invoked[1] = "curl"
        /\ Len(call.invoked) <= 2
        /\ (\E k \in 1..Len(call.invoked) : call.invoked[k] = "wget") <=> call.curl # "ok"
        /\ Len(call.invoked) = 2 => call.invoked[2] = "wget"
        /\ call.result = "ok" <=> (call.curl = "ok" \/ call.wget = "ok")
        /\ (call.curl # "ok" /\ call.wget # "ok")
              => call.result \in {"err_download_no_tool", "err_download_failed"}

C26_Witness ==
    /\ call.fn = "download_file"
    /\ call.platform = "unix"
    /\ call.curl = "nonzero"
    /\ call.wget = "ok"
    /\ call.invoked = <<"curl", "wget">>
    /\ call.result = "ok"

\* The texts of the rendered lines whose first character is one of the given ones.
RECURSIVE LinesMarked(_, _)
LinesMarked(rendered_lines, marks) ==
    IF rendered_lines = <<>> THEN <<>>
    ELSE (IF Head(Head(rendered_lines)) \in marks THEN <<Tail(Head(rendered_lines))>> ELSE <<>>)
         \o LinesMarked(Tail(rendered_lines), marks)

\* C29: in render_diff(old, new) the lines marked with a space or - are, in order, the
\* lines of old, the lines marked with a space or + are the lines of new, and the
\* number of + and - lines is diff_score(old, new).
C29_DiffReconstructsBothSides ==
    call.fn = "render_diff" =>
        LET out == lines(call.rendered)
        IN  /\ \A k \in 1..Len(out) : out[k] # <<>> /\ Head(out[k]) \in {" ", "-", "+"}
            /\ LinesMarked(out, {" ", "-"}) = lines(call.old)
            /\ LinesMarked(out, {" ", "+"}) = lines(call.new)
            /\ Len(LinesMarked(out, {"-", "+"})) = call.score

C29_Witness ==
    /\ call.fn = "render_diff"
    /\ lines(call.old) = << <<"a">>, <<>>, <<"b">> >>
    /\ lines(call.new) = << <<"b">>, <<"a">>, <<>> >>
    /\ call.score = 2

\* The text after the managed block that begins at the first start marker: what
\* follows the first end marker after that start marker, nothing when none follows.
AfterBlock(s) ==
    IF EndsAfterFirstStart(s) = {} THEN <<>>
    ELSE SubSeq(s, Least(EndsAfterFirstStart(s)) + Len(SHNOTE_MARKER_END), Len(s))

\* The text before the first start marker.
BeforeBlock(s) == SubSeq(s, 1, Least(MarkerPositions(s, SHNOTE_MARKER_START)) - 1)

\* No end marker shares a newline with the first start marker.
MarkersApart(s) ==
    MarkerPositions(s, SHNOTE_MARKER_START) # {} =>
        \A e \in MarkerPositions(s, SHNOTE_MARKER_END) :
          \/ e + Len(SHNOTE_MARKER_END) <= Least(MarkerPositions(s, SHNOTE_MARKER_START))
          \/ e >= AfterFirstStart(s)

\* C24: append_rules on a file with a managed block keeps everything before the start
\* marker and everything after the block's end marker and replaces only what lies
\* between; without an end marker everything from the start marker to the end of the
\* file is replaced; without a start marker the previous content is kept as a prefix
\* and the block is appended.
C24_AppendKeepsOutsideOfBlock ==
    (call.fn = "append_rules" /\ call.n = 1) =>
        LET c == IF call.initial = NoFile THEN <<>> ELSE call.initial
            block == SHNOTE_MARKER_START \o call.rules \o SHNOTE_MARKER_END
        IN  MarkersApart(c) =>
              IF MarkerPositions(c, SHNOTE_MARKER_START) = {}
              THEN call.file = c \o block
              ELSE call.file = BeforeBlock(c) \o block \o AfterBlock(c)

\* C25: when migrate_shnote_rules returns true the new file holds the latest rules and
\* the old file is gone (it held nothing but the block) or has no start marker and
\* keeps all its content outside the block, up to trailing whitespace; when the old
\* file has no start marker the function returns false, creates no new file and leaves
\* the old file as it was.
C25_MigrationMovesTheBlock ==
    (call.fn = "migrate_shnote_rules" /\ call.result.ok
       /\ MarkersApart(call.home["claude_md"])) =>
        LET old == call.home["claude_md"]
            after == call.result.home
        IN  IF MarkerPositions(old, SHNOTE_MARKER_START) = {}
            THEN ~call.result.migrated /\ after = call.home
            ELSE /\ call.result.migrated
                 /\ after["claude_rules"] = call.rules
                 /\ LET outside == trim_end(BeforeBlock(old) \o AfterBlock(old))
                    IN  IF outside = <<>>
                        THEN after["claude_md"] = NoFile
                        ELSE /\ after["claude_md"] # NoFile
                             /\ MarkerPositions(after["claude_md"], SHNOTE_MARKER_START) = {}
                             /\ trim_end(after["claude_md"]) = outside

\* The path init writes the rules to.
WrittenPath(target, probe) ==
    CASE target = "Claude" -> IF AtLeast2064(probe) THEN "claude_rules" ELSE "claude_md"
      [] target = "Codex" -> "codex_agents"
      [] OTHER -> "gemini_md"

\* C27: every rules file init writes at user scope is found by the reconciler: after
\* init for any target (Claude in either layout, Codex, Gemini) find_rules_files has an
\* entry for the written file, and with the same language it is classified Unmodified.
C27_InitOutputIsFound ==
    (call.fn = "init_then_find" /\ call.result.ok) =>
        \E k \in 1..Len(call.files) :
          /\ call.files[k].path = WrittenPath(call.target, call.probe)
          /\ call.files[k].target = call.target
          /\ unmodified(call.files[k].rules,
                        rules_for_target_with_pueue(call.lang, call.target, TRUE),
                        rules_for_target_with_pueue(call.lang, call.target, FALSE))

\* C28: accepting the rewrite for one location changes only the file of that location:
\* no file at another candidate location is created, changed or deleted, so what was
\* read for the locations still to be handled is what is on disk.
C28_RewriteTouchesOneLocation ==
    /\ [][pc = "rules_loop" =>
            \A p \in Paths : p # rules_files[rec_idx].path => home'[p] = home[p]]_vars
    /\ [](pc = "rules_loop" =>
            \A k \in rec_idx..Len(rules_files) :
              /\ home[rules_files[k].path] \notin {NoFile, Unreadable}
              /\ extract_shnote_rules(home[rules_files[k].path]) = rules_files[k].rules)

\* An executable that can be run: the one a run started from or a downloaded release
\* (only binaries that passed the verification are copied to the destination).
CompleteExecutable(bin) == bin \in {OldBinary} \cup BinaryResources

\* C30: in the rename-then-copy strategy (windows build), over any sequence of install
\* attempts in which the rename or the copy may fail, there is at every moment a
\* complete executable (the original or a verified new one) at the destination path or
\* at the renamed-aside path; no later attempt destroys the only complete copy.
C30_CompleteCopyAlwaysExists ==
    platform = "windows" => (CompleteExecutable(dest) \/ CompleteExecutable(dest_old))

C30_Witness ==
    /\ platform = "windows"
    /\ runs = 2
    /\ outcome = "err_replace_binary"
    /\ dest \in {Absent, Partial}
    /\ dest_old = NewBinary

====
